---- MODULE Spec2Model ----
(***************************************************************************)
(* Startup of the semantic-cache server: settings construction             *)
(* (semantic_cache/core/settings.py), the two schema initialisers          *)
(* (semantic_cache/manager/data_manager/init_schema.py) and main()         *)
(* (server/server.py).                                                     *)
(*                                                                         *)
(* The two stores (the Redis search index and the Milvus collection) are   *)
(* external: a store is modelled by the schema it holds, and each client   *)
(* call either answers from that schema or fails with the client           *)
(* library's error (RedisError / MilvusException), chosen                  *)
(* nondeterministically per call.  info()["attributes"] is read as the     *)
(* code reads it: a list of mappings with an "attribute" key.              *)
(***************************************************************************)
EXTENDS Naturals, FiniteSets, Sequences, TLC

\* ------------------------------------------------------------- bounds
\* Process starts (runs of main()) in one behaviour.
MaxRuns == 2
\* Vector dimensions range over 1..MaxDim (settings and stores alike).
MaxDim == 2
\* A store found at startup lacks at most this many of its expected fields.
MaxMissing == 1

Dims == 1..MaxDim

\* ------------------------------------------------------------- settings
\* The fields of Settings; none has a default value.
SettingsFields ==
    {"REDIS_HOST", "REDIS_PORT", "REDIS_INDEX_NAME",
     "MILVUS_HOST", "MILVUS_PORT", "MILVUS_COLLECTION_NAME", "VECTOR_DIM"}

\* A Settings class in which VECTOR_DIM carries a default value.
SettingsValid_DimDefault(e) ==
    (SettingsFields \ {"VECTOR_DIM"}) \subseteq e.provided

\* settings = Settings(): construction succeeds iff every field (none has a
\* default) is provided by the environment or the .env file.
SettingsValid(e) == SettingsFields \subseteq e.provided

\* ------------------------------------------------------------- Redis
\* required_fields of the index validation.
required_fields == {"course_id", "vector", "access_count", "last_accessed"}

NoIndex ==
    [exists |-> FALSE, attrs |-> {}, algo |-> "none", metric |-> "none",
     dim |-> 0, prefix |-> "none"]

\* An index created without its last_accessed field.
CreatedIndex_NoLastAccessed(dim) ==
    [exists |-> TRUE,
     attrs  |-> {"course_id", "vector", "access_count"},
     algo   |-> "HNSW", metric |-> "COSINE", dim |-> dim,
     prefix |-> "cache:"]

\* An index created over a FLAT vector field.
CreatedIndex_Flat(dim) ==
    [exists |-> TRUE,
     attrs  |-> {"course_id", "vector", "access_count", "last_accessed"},
     algo   |-> "FLAT", metric |-> "COSINE", dim |-> dim,
     prefix |-> "cache:"]

\* The index create_index(schema, definition) builds.
CreatedIndex(dim) ==
    [exists |-> TRUE,
     attrs  |-> {"course_id", "vector", "access_count", "last_accessed"},
     algo   |-> "HNSW", metric |-> "COSINE", dim |-> dim,
     prefix |-> "cache:"]

\* required_fields.issubset(attributes)
RedisSchemaOK(idx) == required_fields \subseteq idx.attrs

\* The result of one call of a schema initialiser: how it ended, the store
\* it leaves, the client calls it issued and the calls that failed for a
\* reason of the environment (connection, timeout).
Outcome(result, store, calls, faulted) ==
    [result |-> result, store |-> store, calls |-> calls, faulted |-> faulted]

\* The except-branch of init_redis_schema: create the index.
RedisCreate(idx, dim, f, calls, faulted) ==
    LET c == calls \cup {"redis.create_index"} IN
    IF "redis.create_index" \in f
    THEN Outcome("err", idx, c, faulted \cup {"redis.create_index"})
    ELSE IF idx.exists
         THEN Outcome("err", idx, c, faulted)   \* "Index already exists"
         ELSE Outcome("ok", CreatedIndex(dim), c, faulted)

\* init_redis_schema(): f is the set of client calls the environment fails.
init_redis_schema(idx, dim, f) ==
    IF "redis.ping" \in f
    THEN Outcome("err", idx, {"redis.ping"}, {"redis.ping"})
    ELSE LET c == {"redis.ping", "redis.info"} IN
         IF "redis.info" \in f
         THEN RedisCreate(idx, dim, f, c, {"redis.info"})
         ELSE IF ~idx.exists
              THEN RedisCreate(idx, dim, f, c, {})   \* unknown index name
              ELSE IF RedisSchemaOK(idx)
                   THEN Outcome("ok", idx, c, {})
                   \* the mismatch RedisError is raised inside the try
                   \* block and caught by its own except RedisError
                   ELSE RedisCreate(idx, dim, f, c, {})

RedisFaults == {"redis.ping", "redis.info", "redis.create_index"}


\* ------------------------------------------------------------- Milvus
\* The fields of the collection schema init_milvus_schema creates.
collection_fields ==
    {"id", "course_id", "vector", "doc_ref_id", "chunk_index", "created_at"}

NoCollection ==
    [exists |-> FALSE, fields |-> {}, partition_key |-> FALSE, dim |-> 0,
     index |-> "none"]

\* Collection(name, schema, consistency_level="Strong"): the collection as
\* created, before its index is built.
CreatedCollection(dim) ==
    [exists |-> TRUE,
     fields |-> {"id", "course_id", "vector", "doc_ref_id", "chunk_index",
                 "created_at"},
     partition_key |-> TRUE, dim |-> dim, index |-> "none"]

\* col.create_index("vector", index_params)
WithIndex(col) == [col EXCEPT !.index = "HNSW/COSINE"]

\* A validation that does not compare the vector dimension.
MilvusSchemaOK_NoDim(col, dim) ==
    /\ "course_id" \in col.fields /\ col.partition_key
    /\ "vector" \in col.fields

\* The hard-fail validation of an existing collection.
MilvusSchemaOK(col, dim) ==
    /\ "course_id" \in col.fields /\ col.partition_key
    /\ "vector" \in col.fields
    /\ col.dim = dim

\* init_milvus_schema(): f is the set of client calls the environment fails.
init_milvus_schema(col, dim, f) ==
    IF "milvus.connect" \in f
    THEN Outcome("err", col, {"milvus.connect"}, {"milvus.connect"})
    ELSE LET c1 == {"milvus.connect", "milvus.has_collection"} IN
         IF "milvus.has_collection" \in f
         THEN Outcome("err", col, c1, {"milvus.has_collection"})
         ELSE IF col.exists
              THEN Outcome(IF MilvusSchemaOK(col, dim) THEN "ok" ELSE "err",
                           col, c1, {})
              ELSE LET c2 == c1 \cup {"milvus.create_collection"} IN
                   IF "milvus.create_collection" \in f
                   THEN Outcome("err", col, c2, {"milvus.create_collection"})
                   ELSE LET c3 == c2 \cup {"milvus.create_index"} IN
                        IF "milvus.create_index" \in f
                        THEN Outcome("err", CreatedCollection(dim), c3,
                                     {"milvus.create_index"})
                        ELSE Outcome("ok", WithIndex(CreatedCollection(dim)),
                                     c3, {})

MilvusFaults ==
    {"milvus.connect", "milvus.has_collection", "milvus.create_collection",
     "milvus.create_index"}


\* ------------------------------------------------------------- main()
\* Exceptions are not caught in main(): a call that raises ends the
\* process, a call that returns lets main() go on to its next statement.
MainNext_Swallow(result, next) == next

MainNext(result, next) == IF result = "ok" THEN next ELSE "exited"

\* Client calls that create or modify a store.
ModifyingCalls ==
    {"redis.create_index", "milvus.create_collection", "milvus.create_index"}

\* ------------------------------------------------------------- state
VARIABLES
    env,          \* what the environment / .env file provides
    redis,        \* the Redis search index REDIS_INDEX_NAME
    milvus,       \* the Milvus collection MILVUS_COLLECTION_NAME
    pc,           \* where the process is
    run,          \* number of this process start
    redis0,       \* the index when this process started
    milvus0,      \* the collection when this process started
    redisResult,  \* how init_redis_schema ended in this process
    milvusResult, \* how init_milvus_schema ended in this process
    returned,     \* the initialisers that returned normally, in order
    calls,        \* client calls issued by this process
    faults,       \* client calls the environment failed in this process
    prevOk,       \* the previous process reached the serving state
    prevCalls     \* client calls issued by the previous process

vars ==
    <<env, redis, milvus, pc, run, redis0, milvus0, redisResult,
      milvusResult, returned, calls, faults, prevOk, prevCalls>>

\* Environments: any subset of the settings; VECTOR_DIM has a value when set.
Envs ==
    {[provided |-> P, dim |-> d] :
        P \in SUBSET SettingsFields, d \in Dims \cup {0}}

EnvOK(e) == ("VECTOR_DIM" \in e.provided) <=> (e.dim # 0)

\* Indexes a process may find: absent, or present with a field set that
\* lacks at most MaxMissing required fields and may hold one more.
RedisIndexes ==
    {NoIndex} \cup
    {[exists |-> TRUE, attrs |-> a, algo |-> "HNSW", metric |-> "COSINE",
      dim |-> d, prefix |-> "cache:"] :
        a \in {S \in SUBSET (required_fields \cup {"answer"}) :
                  Cardinality(required_fields \ S) <= MaxMissing},
        d \in Dims}

\* Collections a process may find: absent, or present, with or without the
\* partition key flag on course_id and with or without a vector index.
MilvusCollections ==
    {NoCollection} \cup
    {c \in [exists : {TRUE},
            fields : {S \in SUBSET (collection_fields \cup {"tenant"}) :
                         Cardinality(collection_fields \ S) <= MaxMissing},
            partition_key : BOOLEAN,
            dim : Dims \cup {0},
            index : {"none", "HNSW/COSINE"}] :
        /\ c.partition_key => "course_id" \in c.fields
        /\ (c.dim # 0) <=> ("vector" \in c.fields)
        /\ (c.index # "none") => "vector" \in c.fields}

Init ==
    /\ env \in Envs /\ EnvOK(env)
    /\ \/ /\ SettingsValid(env)
          /\ redis \in RedisIndexes
          /\ milvus \in MilvusCollections
       \/ /\ ~SettingsValid(env)
          /\ redis = NoIndex
          /\ milvus = NoCollection
    /\ pc = "import"
    /\ run = 1
    /\ redis0 = redis /\ milvus0 = milvus
    /\ redisResult = "none" /\ milvusResult = "none"
    /\ returned = <<>>
    /\ calls = {} /\ faults = {}
    /\ prevOk = FALSE /\ prevCalls = {}

\* The import of semantic_cache.core.settings constructs the settings.
LoadSettings ==
    /\ pc = "import"
    /\ pc' = IF SettingsValid(env) THEN "init_redis_schema" ELSE "exited"
    /\ UNCHANGED <<env, redis, milvus, run, redis0, milvus0, redisResult,
                   milvusResult, returned, calls, faults, prevOk, prevCalls>>

\* main(): init_redis_schema()
InitRedis ==
    /\ pc = "init_redis_schema"
    /\ \E f \in SUBSET RedisFaults :
          LET o == init_redis_schema(redis, env.dim, f) IN
          /\ redis' = o.store
          /\ redisResult' = o.result
          /\ calls' = calls \cup o.calls
          /\ faults' = faults \cup o.faulted
          /\ returned' = IF o.result = "ok"
                         THEN Append(returned, "init_redis_schema")
                         ELSE returned
          /\ pc' = MainNext(o.result, "init_milvus_schema")
    /\ UNCHANGED <<env, milvus, run, redis0, milvus0, milvusResult, prevOk,
                   prevCalls>>

\* main(): init_milvus_schema()
InitMilvus ==
    /\ pc = "init_milvus_schema"
    /\ \E f \in SUBSET MilvusFaults :
          LET o == init_milvus_schema(milvus, env.dim, f) IN
          /\ milvus' = o.store
          /\ milvusResult' = o.result
          /\ calls' = calls \cup o.calls
          /\ faults' = faults \cup o.faulted
          /\ returned' = IF o.result = "ok"
                         THEN Append(returned, "init_milvus_schema")
                         ELSE returned
          /\ pc' = MainNext(o.result, "uvicorn.run")
    /\ UNCHANGED <<env, redis, run, redis0, milvus0, redisResult, prevOk,
                   prevCalls>>

\* main(): uvicorn.run(app, port=8000)
UvicornRun ==
    /\ pc = "uvicorn.run"
    /\ pc' = "serving"
    /\ UNCHANGED <<env, redis, milvus, run, redis0, milvus0, redisResult,
                   milvusResult, returned, calls, faults, prevOk, prevCalls>>

\* The process is started again, with the same settings, on the stores as
\* the previous process left them.
Restart ==
    /\ pc \in {"serving", "exited"}
    /\ run < MaxRuns
    /\ run' = run + 1
    /\ pc' = "import"
    /\ redis0' = redis /\ milvus0' = milvus
    /\ redisResult' = "none" /\ milvusResult' = "none"
    /\ returned' = <<>>
    /\ calls' = {} /\ faults' = {}
    /\ prevOk' = (pc = "serving")
    /\ prevCalls' = calls
    /\ UNCHANGED <<env, redis, milvus>>

Next == LoadSettings \/ InitRedis \/ InitMilvus \/ UvicornRun \/ Restart

Spec == Init /\ [][Next]_vars


\* ------------------------------------------------------------- claims
Started == pc \in {"uvicorn.run", "serving"}

\* C1: the service reaches uvicorn.run only after init_redis_schema and
\* then init_milvus_schema have both returned without error; once either
\* of them has raised, the process has exited and is not serving.
C1_ServeOnlyAfterInit ==
    /\ Started =>
          /\ returned = <<"init_redis_schema", "init_milvus_schema">>
          /\ redisResult = "ok" /\ milvusResult = "ok"
    /\ (redisResult = "err" \/ milvusResult = "err") => pc = "exited"
    /\ redisResult = "err" => milvusResult = "none"

C1_Witness ==
    /\ pc = "serving"
    /\ returned = <<"init_redis_schema", "init_milvus_schema">>
    /\ ModifyingCalls \subseteq calls

\* C2: a store that exists at startup with a vector field whose dimension
\* differs from VECTOR_DIM makes its initialiser raise, and the service
\* does not start.
C2_DimMismatchFatal ==
    LET redisBad  == /\ redis0.exists /\ "vector" \in redis0.attrs
                     /\ redis0.dim # env.dim
        milvusBad == /\ milvus0.exists /\ "vector" \in milvus0.fields
                     /\ milvus0.dim # env.dim
    IN  /\ (redisBad /\ redisResult # "none") => redisResult = "err"
        /\ (milvusBad /\ milvusResult # "none") => milvusResult = "err"
        /\ (redisBad \/ milvusBad) => ~Started

\* C3: for a store that exists at startup (and answers every call), a field
\* set that lacks an expected field ends the check in an error and the
\* service does not start; a field set that holds them all (with the
\* partition key and the dimension as configured) passes the check.
C3_FieldSetCheck ==
    /\ (redis0.exists /\ redisResult # "none" /\ faults = {}) =>
          IF required_fields \subseteq redis0.attrs
          THEN redisResult = "ok"
          ELSE redisResult = "err" /\ ~Started
    /\ (milvus0.exists /\ milvusResult # "none" /\ faults = {}) =>
          IF collection_fields \subseteq milvus0.fields
          THEN (milvus0.partition_key /\ milvus0.dim = env.dim)
                   => milvusResult = "ok"
          ELSE milvusResult = "err" /\ ~Started

C5_CreatesIndex ==
    (~redis0.exists /\ redisResult # "none"
        /\ faults \cap RedisFaults = {}) =>
        /\ redisResult = "ok"
        /\ "redis.create_index" \in calls
        /\ redis.exists
        /\ {"course_id", "vector", "access_count", "last_accessed"}
              \subseteq redis.attrs
        /\ redis.algo = "HNSW" /\ redis.metric = "COSINE"
        /\ redis.dim = env.dim
        /\ redis.prefix = "cache:"

C5_Witness ==
    /\ ~redis0.exists /\ redisResult = "ok" /\ redis.exists
    /\ faults \cap RedisFaults = {}

\* C6: when any of the seven settings is not provided, the construction of
\* the settings fails: the process exits without starting, no initialiser
\* runs and no store is contacted.
C6_SettingsRequired ==
    (env.provided # SettingsFields /\ pc # "import") =>
        /\ pc = "exited"
        /\ calls = {} /\ returned = <<>>
        /\ redisResult = "none" /\ milvusResult = "none"
        /\ redis = redis0 /\ milvus = milvus0

C6_Witness ==
    /\ pc = "exited"
    /\ Cardinality(SettingsFields \ env.provided) = 1
    /\ calls = {}

\* C7: whenever the service is serving, the Milvus collection exists and
\* has an HNSW / COSINE index over its vector field.
C7_ServingHasIndex ==
    pc = "serving" => (milvus.exists /\ milvus.index = "HNSW/COSINE")

\* C8: init_redis_schema issues create_index only when the index does not
\* exist: not when the index exists (valid or not), and not when reading
\* the index information failed for another reason.
C8_CreateOnlyWhenAbsent ==
    "redis.create_index" \in calls =>
        (~redis0.exists /\ "redis.info" \notin faults)

\* C9: for a collection that exists at startup, init_milvus_schema leaves
\* the collection as it is and issues no creating call; and, Milvus
\* answering every call, it returns successfully exactly when course_id is
\* present and a partition key and vector is present with dimension
\* VECTOR_DIM.
C9_ExistingCollection ==
    (milvus0.exists /\ milvusResult # "none") =>
        /\ milvus = milvus0
        /\ calls \cap {"milvus.create_collection", "milvus.create_index"} = {}
        /\ (faults \cap MilvusFaults = {}) =>
              (milvusResult = "ok" <=>
                  /\ "course_id" \in milvus0.fields
                  /\ milvus0.partition_key
                  /\ "vector" \in milvus0.fields
                  /\ milvus0.dim = env.dim)

C9_Witness ==
    /\ milvus0.exists /\ milvusResult = "ok"
    /\ "tenant" \in milvus0.fields
    /\ faults \cap MilvusFaults = {}

\* C10: a startup that ends in an error has created or modified neither
\* store: both schemas are as they were when the process started.
C10_FailedStartupNoChange ==
    pc = "exited" => (redis = redis0 /\ milvus = milvus0)

====
